---- MODULE Spec2Model ----
(***************************************************************************)
(* Objective Ethics Framework: the three-stage evaluation pipeline of      *)
(* oef_core_structure.py (DEP tier classification, EAP action pathway,     *)
(* RAP decision ledger) and the facade that sequences them.                *)
(*                                                                         *)
(* Reals of the source (reversibility, confidence, candidate scores) are   *)
(* fixed-point integers: reversibility and confidence in hundredths        *)
(* (0.7 is 70), candidate scores in thousandths.  Wall-clock timestamps    *)
(* and the context hash are not modelled.                                  *)
(***************************************************************************)
EXTENDS Integers, Sequences, FiniteSets, TLC

VARIABLES
    decision_log,   \* RecursiveAlignmentPathway.decision_log
    ret,            \* the value returned by the most recent call on the facade / RAP
    eap,            \* ephemeral values of the Action Pathway during the most recent decision
    stages,         \* the pipeline stages the most recent decision ran, in order
    classified,     \* history: per tier, how many processed decisions were classified into it
    request,        \* a caller's pending context map (single-call specifications), or NoRequest
    tier_thresholds,  \* DecisionEvaluationProtocol.tier_thresholds
    action_filters    \* EthicalActionPathway.action_filters

vars == <<decision_log, ret, eap, stages, classified, request,
          tier_thresholds, action_filters>>

----------------------------------------------------------------------------
(* Bounds of the model *)

\* longest ledger explored by Spec (all five tiers)
MaxLog == 6
\* longest ledger explored by SpecLong (three tiers)
MaxLongLog == 10
MaxOpsLog == 10
\* largest stakeholder list of the single-call input grid
MaxStakeholders == 11

----------------------------------------------------------------------------
(* Data model *)

EthicalTier ==
    {"TIER_1_ROUTINE", "TIER_2_STANDARD", "TIER_3_HIGH_STAKES",
     "TIER_4_AMBIGUOUS", "TIER_5_PROHIBITED"}

\* dict.get(key, default)
Get(m, k, d) == IF k \in DOMAIN m THEN m[k] ELSE d

Max(a, b) == IF a >= b THEN a ELSE b
Min(a, b) == IF a <= b THEN a ELSE b

\* Python's None
None == [kind |-> "None"]

\* the empty dict
EmptyDict == <<>>

\* a list of n stakeholder identifiers
StakeholderList(n) == [i \in 1..n |-> i]

\* variant: a missing potential_harm_level counts as no harm
DecisionContextHarmless(decision_request, context_data) ==
    [decision_request     |-> decision_request,
     stakeholders         |-> Get(context_data, "stakeholders", <<>>),
     urgency_level        |-> Get(context_data, "urgency_level", 5),
     reversibility_score  |-> Get(context_data, "reversibility_score", 50),
     potential_harm_level |-> Get(context_data, "potential_harm_level", 0),
     system_confidence    |-> Get(context_data, "system_confidence", 70),
     domain_specific_data |-> Get(context_data, "domain_data", EmptyDict)]

DecisionContext(decision_request, context_data) ==
    [decision_request     |-> decision_request,
     stakeholders         |-> Get(context_data, "stakeholders", <<>>),
     urgency_level        |-> Get(context_data, "urgency_level", 5),
     reversibility_score  |-> Get(context_data, "reversibility_score", 50),
     potential_harm_level |-> Get(context_data, "potential_harm_level", 3),
     system_confidence    |-> Get(context_data, "system_confidence", 70),
     domain_specific_data |-> Get(context_data, "domain_data", EmptyDict)]

----------------------------------------------------------------------------
(* DecisionEvaluationProtocol *)

InitializeThresholds ==
    [tier_2 |-> [harm_threshold |-> 3, confidence_min |-> 80],
     tier_3 |-> [harm_threshold |-> 6, reversibility_min |-> 50],
     tier_4 |-> [uncertainty_max |-> 40, stakeholder_count |-> 10],
     tier_5 |-> [prohibited_indicators |-> <<"irreversible_severe_harm">>]]

harm_reduction_check(context) == context.potential_harm_level > 3

reversibility_check(context) == context.reversibility_score < 70

\* variant: the proportionality heuristic fires from harm 2 on
proportionality_check_low_harm(context) ==
    context.potential_harm_level > 1 /\ context.urgency_level < 3

proportionality_check(context) ==
    context.potential_harm_level > 5 /\ context.urgency_level < 3

consensus_check(context) == Len(context.stakeholders) > 3

\* the heuristics dict, in insertion (iteration) order
HeuristicNames ==
    <<"harm_reduction", "reversibility_test", "proportionality", "consensus_needed">>

HeuristicFires(name, context) ==
    CASE name = "harm_reduction"     -> harm_reduction_check(context)
      [] name = "reversibility_test" -> reversibility_check(context)
      [] name = "proportionality"    -> proportionality_check(context)
      [] name = "consensus_needed"   -> consensus_check(context)

TriggeredHeuristics(context) ==
    SelectSeq(HeuristicNames, LAMBDA h : HeuristicFires(h, context))

AssignTierReordered(context, heuristics) ==
    IF context.system_confidence < 40
       \/ Len(context.stakeholders) > tier_thresholds.tier_4.stakeholder_count
    THEN "TIER_4_AMBIGUOUS"
    ELSE IF context.potential_harm_level >= 9 /\ context.reversibility_score < 10
    THEN "TIER_5_PROHIBITED"
    ELSE IF context.potential_harm_level >= tier_thresholds.tier_3.harm_threshold
            \/ context.reversibility_score < tier_thresholds.tier_3.reversibility_min
    THEN "TIER_3_HIGH_STAKES"
    ELSE IF context.potential_harm_level >= tier_thresholds.tier_2.harm_threshold
            \/ Len(heuristics) > 0
    THEN "TIER_2_STANDARD"
    ELSE "TIER_1_ROUTINE"

AssignTier(context, heuristics) ==
    IF context.potential_harm_level >= 9 /\ context.reversibility_score < 10
    THEN "TIER_5_PROHIBITED"
    ELSE IF context.system_confidence < 40
            \/ Len(context.stakeholders) > tier_thresholds.tier_4.stakeholder_count
    THEN "TIER_4_AMBIGUOUS"
    ELSE IF context.potential_harm_level >= tier_thresholds.tier_3.harm_threshold
            \/ context.reversibility_score < tier_thresholds.tier_3.reversibility_min
    THEN "TIER_3_HIGH_STAKES"
    ELSE IF context.potential_harm_level >= tier_thresholds.tier_2.harm_threshold
            \/ Len(heuristics) > 0
    THEN "TIER_2_STANDARD"
    ELSE "TIER_1_ROUTINE"

\* the reasons of the justification text, in the order the text lists them
GenerateJustification(context, tier, heuristics) ==
    [tier    |-> tier,
     reasons |->
        (IF context.potential_harm_level > 5 THEN <<"harm">> ELSE <<>>)
     \o (IF context.reversibility_score < 50 THEN <<"reversibility">> ELSE <<>>)
     \o (IF context.system_confidence < 50 THEN <<"confidence">> ELSE <<>>)
     \o (IF Len(context.stakeholders) > 5 THEN <<"stakeholders">> ELSE <<>>)
     \o (IF Len(heuristics) > 0 THEN <<"heuristics">> ELSE <<>>)]

InSeq(x, s) == \E i \in 1..Len(s) : s[i] = x

\* variant: a confidence of exactly 0.7 counts as low
IdentifyRelevantTenetsInclusive(context, heuristics) ==
    LET t1 == IF context.potential_harm_level > 0
              THEN <<"non_maleficence">> ELSE <<>>
        t2 == IF InSeq("consensus_needed", heuristics)
              THEN Append(t1, "justice") ELSE t1
        t3 == IF context.system_confidence <= 70
              THEN Append(t2, "intellectual_honesty") ELSE t2
    IN  IF Len(t3) = 0 \/ context.potential_harm_level < 3
        THEN Append(t3, "beneficence") ELSE t3

IdentifyRelevantTenets(context, heuristics) ==
    LET t1 == IF context.potential_harm_level > 0
              THEN <<"non_maleficence">> ELSE <<>>
        t2 == IF InSeq("consensus_needed", heuristics)
              THEN Append(t1, "justice") ELSE t1
        t3 == IF context.system_confidence < 70
              THEN Append(t2, "intellectual_honesty") ELSE t2
    IN  IF Len(t3) = 0 \/ context.potential_harm_level < 3
        THEN Append(t3, "beneficence") ELSE t3

EvaluateDecision(context) ==
    LET triggered_heuristics == TriggeredHeuristics(context)
        assigned_tier == AssignTier(context, triggered_heuristics)
    IN  [assigned_tier        |-> assigned_tier,
         justification        |->
             GenerateJustification(context, assigned_tier, triggered_heuristics),
         confidence_score     |-> context.system_confidence,
         relevant_tenets      |-> IdentifyRelevantTenets(context, triggered_heuristics),
         heuristics_triggered |-> triggered_heuristics,
         metadata             |-> [urgency |-> context.urgency_level]]

----------------------------------------------------------------------------
(* EthicalActionPathway *)

\* the keys of the action_filters dict, in insertion (iteration) order
InitializeFilters == <<"harm_threshold", "reversibility_min", "confidence_check">>

\* variant: the harm filter excludes its boundary value
FilterPassesStrict(name, action, context) ==
    CASE name = "harm_threshold"    -> Get(action, "harm_score", 0) < 5
      [] name = "reversibility_min" -> Get(action, "reversibility", 100) >= 30
      [] name = "confidence_check"  -> Get(action, "confidence", 0) >= 50

FilterPasses(name, action, context) ==
    CASE name = "harm_threshold"    -> Get(action, "harm_score", 0) <= 5
      [] name = "reversibility_min" -> Get(action, "reversibility", 100) >= 30
      [] name = "confidence_check"  -> Get(action, "confidence", 0) >= 50

\* variant: the safeguards candidate without the floor at 0 and the cap at 1.0
GenerateOptionsUnclamped(context, evaluation) ==
    << [id          |-> "proceed",
        description |-> "Proceed with original decision",
        harm_score  |-> context.potential_harm_level,
        reversibility |-> context.reversibility_score,
        confidence  |-> context.system_confidence],
       [id          |-> "modified_proceed",
        description |-> "Proceed with safeguards",
        harm_score  |-> context.potential_harm_level - 2,
        reversibility |-> context.reversibility_score + 20,
        confidence  |-> context.system_confidence],
       [id          |-> "defer",
        description |-> "Defer decision for more information",
        harm_score  |-> 1,
        reversibility |-> 100,
        confidence  |-> 90] >>

\* variant: the defer candidate carries the context's confidence
GenerateOptionsDeferInherits(context, evaluation) ==
    << [id          |-> "proceed",
        description |-> "Proceed with original decision",
        harm_score  |-> context.potential_harm_level,
        reversibility |-> context.reversibility_score,
        confidence  |-> context.system_confidence],
       [id          |-> "modified_proceed",
        description |-> "Proceed with safeguards",
        harm_score  |-> Max(0, context.potential_harm_level - 2),
        reversibility |-> Min(100, context.reversibility_score + 20),
        confidence  |-> context.system_confidence],
       [id          |-> "defer",
        description |-> "Defer decision for more information",
        harm_score  |-> 1,
        reversibility |-> 100,
        confidence  |-> context.system_confidence] >>

\* variant: the safeguards candidate keeps the context's harm
GenerateOptionsNoSafeguard(context, evaluation) ==
    << [id          |-> "proceed",
        description |-> "Proceed with original decision",
        harm_score  |-> context.potential_harm_level,
        reversibility |-> context.reversibility_score,
        confidence  |-> context.system_confidence],
       [id          |-> "modified_proceed",
        description |-> "Proceed with safeguards",
        harm_score  |-> context.potential_harm_level,
        reversibility |-> Min(100, context.reversibility_score + 20),
        confidence  |-> context.system_confidence],
       [id          |-> "defer",
        description |-> "Defer decision for more information",
        harm_score  |-> 1,
        reversibility |-> 100,
        confidence  |-> 90] >>

GenerateOptions(context, evaluation) ==
    << [id          |-> "proceed",
        description |-> "Proceed with original decision",
        harm_score  |-> context.potential_harm_level,
        reversibility |-> context.reversibility_score,
        confidence  |-> context.system_confidence],
       [id          |-> "modified_proceed",
        description |-> "Proceed with safeguards",
        harm_score  |-> Max(0, context.potential_harm_level - 2),
        reversibility |-> Min(100, context.reversibility_score + 20),
        confidence  |-> context.system_confidence],
       [id          |-> "defer",
        description |-> "Defer decision for more information",
        harm_score  |-> 1,
        reversibility |-> 100,
        confidence  |-> 90] >>

\* variant: an option survives as soon as one filter accepts it
PassesSomeFilter(option, context) ==
    \E i \in 1..Len(action_filters) : FilterPasses(action_filters[i], option, context)

\* the inner loop stops at the first filter that fails
PassesAllFilters(option, context) ==
    \A i \in 1..Len(action_filters) : FilterPasses(action_filters[i], option, context)

ApplyFilters(options, context) ==
    SelectSeq(options, LAMBDA option : PassesAllFilters(option, context))

\* the weighted score, in thousandths
OptionScore(option) ==
      (10 - Get(option, "harm_score", 5)) * 400
    + Get(option, "reversibility", 50) * 3
    + Get(option, "confidence", 50) * 3

\* variant: a later option replaces the best one on an equal score
RECURSIVE SelectLoopLastWins(_, _, _, _)
SelectLoopLastWins(options, i, best_option, best_score) ==
    IF i > Len(options) THEN best_option
    ELSE IF OptionScore(options[i]) >= best_score
         THEN SelectLoopLastWins(options, i + 1, options[i], OptionScore(options[i]))
         ELSE SelectLoopLastWins(options, i + 1, best_option, best_score)

RECURSIVE SelectLoop(_, _, _, _)
SelectLoop(options, i, best_option, best_score) ==
    IF i > Len(options) THEN best_option
    ELSE IF OptionScore(options[i]) > best_score
         THEN SelectLoop(options, i + 1, options[i], OptionScore(options[i]))
         ELSE SelectLoop(options, i + 1, best_option, best_score)

SelectAction(options, evaluation) ==
    IF Len(options) = 0
    THEN [id |-> "no_action", description |-> "No ethically acceptable options found"]
    ELSE SelectLoop(options, 1, None, -1000)

JustifySelection(action, evaluation) ==
    <<"Selected", action.description, evaluation.assigned_tier>>

\* the pathway's ephemeral values when it generated nothing
EapIdle == [options |-> <<>>, filtered_options |-> <<>>, ran |-> FALSE]

\* process_decision: the returned dict (result) and the ephemeral values (eap)
EapProcessDecision(context, evaluation) ==
    IF evaluation.assigned_tier = "TIER_1_ROUTINE"
    THEN [result |-> [action |-> "proceed_normally",
                      justification |-> "Routine decision, no ethical concerns"],
          eap |-> EapIdle]
    ELSE IF evaluation.assigned_tier = "TIER_5_PROHIBITED"
    THEN [result |-> [action |-> "block_decision",
                      justification |-> "Decision violates ethical boundaries"],
          eap |-> EapIdle]
    ELSE LET options == GenerateOptions(context, evaluation)
             filtered_options == ApplyFilters(options, context)
             selected_action == SelectAction(filtered_options, evaluation)
         IN  [result |-> [action |-> selected_action,
                          justification |-> JustifySelection(selected_action, evaluation),
                          alternatives_considered |-> Len(options),
                          options_after_filtering |-> Len(filtered_options)],
              eap |-> [options |-> options,
                       filtered_options |-> filtered_options,
                       ran |-> TRUE]]

----------------------------------------------------------------------------
(* RecursiveAlignmentPathway *)

\* variant: the ledger keeps a window of the five newest entries
LogDecisionWindow(log, context, evaluation, action) ==
    LET entry == [context    |-> context,
                  evaluation |-> evaluation,
                  action     |-> action,
                  outcome    |-> None]
    IN  IF Len(log) >= 5 THEN Append(Tail(log), entry) ELSE Append(log, entry)

LogDecision(log, context, evaluation, action) ==
    Append(log, [context    |-> context,
                 evaluation |-> evaluation,
                 action     |-> action,
                 outcome    |-> None])

\* the tier_distribution dict after the first i entries of the log
RECURSIVE TallyTiers(_, _)
TallyTiers(log, i) ==
    IF i = 0 THEN EmptyDict
    ELSE LET tier_distribution == TallyTiers(log, i - 1)
             tier == log[i].evaluation.assigned_tier
         IN  IF tier \in DOMAIN tier_distribution
             THEN [tier_distribution EXCEPT ![tier] = @ + 1]
             ELSE tier_distribution @@ (tier :> 0 + 1)

\* variant: the tally covers a sliding window of the five most recent entries
AnalyzePatternsWindow(log) ==
    IF Len(log) < 5
    THEN [status |-> "insufficient_data", entries |-> Len(log)]
    ELSE [total_decisions   |-> Len(log),
          tier_distribution |-> TallyTiers(SubSeq(log, Len(log) - 4, Len(log)), 5)]

\* variant: the tally starts from a dict that holds every tier at 0
AnalyzePatternsAllTiers(log) ==
    IF Len(log) < 5
    THEN [status |-> "insufficient_data", entries |-> Len(log)]
    ELSE [total_decisions   |-> Len(log),
          tier_distribution |->
              [tier \in EthicalTier |-> Get(TallyTiers(log, Len(log)), tier, 0)]]

AnalyzePatterns(log) ==
    IF Len(log) < 5
    THEN [status |-> "insufficient_data", entries |-> Len(log)]
    ELSE [total_decisions   |-> Len(log),
          tier_distribution |-> TallyTiers(log, Len(log))]

\* variant: substantive advice as soon as the analysis has data (5 entries)
RecommendAdjustmentsEarly(log) ==
    LET patterns == AnalyzePatterns(log)
    IN  IF Get(patterns, "total_decisions", 0) < 5
        THEN <<"Continue monitoring - more data needed for reliable patterns">>
        ELSE LET tier_dist == Get(patterns, "tier_distribution", EmptyDict)
             IN  (IF 10 * Get(tier_dist, "TIER_4_AMBIGUOUS", 0) > Len(log) * 3
                  THEN <<"High rate of Tier 4 decisions suggests need for better heuristics or training data">>
                  ELSE <<>>)
              \o (IF Get(tier_dist, "TIER_5_PROHIBITED", 0) > 0
                  THEN <<"Prohibited decisions detected - review input filtering and validation">>
                  ELSE <<>>)

\* variant: a Tier 4 share of exactly 30% is flagged too
RecommendAdjustmentsInclusive(log) ==
    LET patterns == AnalyzePatterns(log)
    IN  IF Get(patterns, "total_decisions", 0) < 10
        THEN <<"Continue monitoring - more data needed for reliable patterns">>
        ELSE LET tier_dist == Get(patterns, "tier_distribution", EmptyDict)
             IN  (IF 10 * Get(tier_dist, "TIER_4_AMBIGUOUS", 0) >= Len(log) * 3
                  THEN <<"High rate of Tier 4 decisions suggests need for better heuristics or training data">>
                  ELSE <<>>)
              \o (IF Get(tier_dist, "TIER_5_PROHIBITED", 0) > 0
                  THEN <<"Prohibited decisions detected - review input filtering and validation">>
                  ELSE <<>>)

RecommendAdjustments(log) ==
    LET patterns == AnalyzePatterns(log)
    IN  IF Get(patterns, "total_decisions", 0) < 10
        THEN <<"Continue monitoring - more data needed for reliable patterns">>
        ELSE LET tier_dist == Get(patterns, "tier_distribution", EmptyDict)
             IN  (IF 10 * Get(tier_dist, "TIER_4_AMBIGUOUS", 0) > Len(log) * 3
                  THEN <<"High rate of Tier 4 decisions suggests need for better heuristics or training data">>
                  ELSE <<>>)
              \o (IF Get(tier_dist, "TIER_5_PROHIBITED", 0) > 0
                  THEN <<"Prohibited decisions detected - review input filtering and validation">>
                  ELSE <<>>)

----------------------------------------------------------------------------
(* ObjectiveEthicsFramework: the coordinating facade *)

\* a local of process_ethical_decision that is not assigned yet
Unset == [kind |-> "unset"]

routing_map ==
    [tier \in EthicalTier |->
        CASE tier = "TIER_1_ROUTINE"     -> [route |-> "direct_execution", human_review |-> FALSE]
          [] tier = "TIER_2_STANDARD"    -> [route |-> "automatic_execution", human_review |-> FALSE]
          [] tier = "TIER_3_HIGH_STAKES" -> [route |-> "rap_monitoring", human_review |-> FALSE]
          [] tier = "TIER_4_AMBIGUOUS"   -> [route |-> "human_review_required", human_review |-> TRUE]
          [] tier = "TIER_5_PROHIBITED"  -> [route |-> "blocked_and_flagged", human_review |-> TRUE]]

\* variant: the map is looked up with a key that is no EthicalTier member
DetermineRoutingMisKeyed(tier) ==
    Get(routing_map, "tier", [route |-> "unknown", human_review |-> TRUE])

DetermineRouting(tier) ==
    Get(routing_map, tier, [route |-> "unknown", human_review |-> TRUE])

\* the locals of one process_ethical_decision call, before its first stage
NewFrame(decision_request, context_data, log) ==
    [context       |-> DecisionContext(decision_request, context_data),
     evaluation    |-> Unset,
     action_result |-> Unset,
     routing       |-> Unset,
     eap           |-> EapIdle,
     log           |-> log,
     stages        |-> <<>>]

\* Step 1: DEP evaluation
StageEvaluate(f) ==
    [f EXCEPT !.evaluation = EvaluateDecision(f.context),
              !.stages = Append(@, "classify")]

\* variant: every tier is delegated to the Action Pathway
StageActDelegated(f) ==
    LET run == EapProcessDecision(f.context, f.evaluation)
    IN  [f EXCEPT !.action_result = run.result,
                  !.eap = run.eap,
                  !.stages = Append(@, "act")]

\* Step 2: EAP processing for tiers 2-4, tiers 1 and 5 handled directly
StageAct(f) ==
    LET tier == f.evaluation.assigned_tier
        run  == EapProcessDecision(f.context, f.evaluation)
    IN  IF tier \in {"TIER_2_STANDARD", "TIER_3_HIGH_STAKES", "TIER_4_AMBIGUOUS"}
        THEN [f EXCEPT !.action_result = run.result,
                       !.eap = run.eap,
                       !.stages = Append(@, "act")]
        ELSE IF tier = "TIER_1_ROUTINE"
        THEN [f EXCEPT !.action_result =
                           [action |-> "proceed", justification |-> "Routine decision"],
                       !.stages = Append(@, "act")]
        ELSE [f EXCEPT !.action_result =
                           [action |-> "block", justification |-> "Prohibited decision"],
                       !.stages = Append(@, "act")]

\* Step 3: RAP logging
StageLog(f) ==
    [f EXCEPT !.log = LogDecision(f.log, f.context, f.evaluation, f.action_result),
              !.stages = Append(@, "log")]

\* Step 4: routing from the tier
StageRoute(f) ==
    [f EXCEPT !.routing = DetermineRouting(f.evaluation.assigned_tier),
              !.stages = Append(@, "route")]

\* variant: once the ledger holds a prohibited decision every later decision
\* is routed to the ethics committee
RunPipelineAdaptive(decision_request, context_data, log) ==
    LET f == StageLog(StageAct(StageEvaluate(
                 NewFrame(decision_request, context_data, log))))
    IN  IF \E i \in 1..Len(log) : log[i].evaluation.assigned_tier = "TIER_5_PROHIBITED"
        THEN [f EXCEPT !.routing = DetermineRouting("TIER_4_AMBIGUOUS"),
                       !.stages = Append(@, "route")]
        ELSE StageRoute(f)

\* variant: the ledger entry is written before the action stage ran
RunPipelineLogBeforeAct(decision_request, context_data, log) ==
    StageRoute(StageAct(StageLog(StageEvaluate(
        NewFrame(decision_request, context_data, log)))))

RunPipeline(decision_request, context_data, log) ==
    StageRoute(StageLog(StageAct(StageEvaluate(
        NewFrame(decision_request, context_data, log)))))

\* the dict process_ethical_decision returns
DecisionResult(f) ==
    [ethical_evaluation |->
        [tier          |-> f.evaluation.assigned_tier,
         justification |-> f.evaluation.justification,
         confidence    |-> f.evaluation.confidence_score,
         tenets        |-> f.evaluation.relevant_tenets],
     recommended_action |-> f.action_result,
     routing            |-> f.routing,
     metadata           |-> [framework_version |-> "0.1.0"]]

GetSystemStatus(log) ==
    [framework_status    |-> "operational",
     decisions_processed |-> Len(log),
     pattern_analysis    |-> AnalyzePatterns(log),
     recommendations     |-> RecommendAdjustments(log)]

----------------------------------------------------------------------------
(* DEP_v1_OEF: the heuristic set and EthicalDecisionEngine *)
(* Context fields are in hundredths; a raw score is the exact fraction    *)
(* num/den, a rounded score is an integer number of thousandths.          *)

Frac(n, d) == IF d < 0 THEN [num |-> 0 - n, den |-> 0 - d] ELSE [num |-> n, den |-> d]

\* round(num/den) to the nearest integer, ties to even, den > 0.  Python rounds
\* the float nearest to the quotient, so a quotient exactly halfway between two
\* integers may go either way there; EngineInputs holds no such case.
RoundHalfEven(num, den) ==
    LET q == (2 * num + den) \div (2 * den)
    IN  IF (2 * num + den) % (2 * den) = 0 /\ q % 2 = 1 THEN q - 1 ELSE q

ReversibilityHeuristic(context) ==
    Frac(100 - Get(context, "reversibility", 50), 100)

ProportionalityHeuristic(context) ==
    LET expected_benefit == Get(context, "expected_benefit", 50)
        expected_harm    == Get(context, "expected_harm", 50)
    IN  IF expected_benefit + expected_harm = 0 THEN Frac(1, 1)
        ELSE Frac(expected_harm, expected_benefit + expected_harm)

UncertaintyHeuristic(context) ==
    Frac(100 - Get(context, "evidence_certainty", 50), 100)

EvidenceAdequacyHeuristic(context) ==
    Frac(200 - (Get(context, "evidence_quality", 50)
                + Get(context, "evidence_quantity", 50)), 200)

VolitionalMisalignmentHeuristic(context) ==
    IF ~Get(context, "stakeholder_autonomy", TRUE) THEN Frac(80, 100)
    ELSE Frac(100 - Get(context, "volitional_alignment", 50), 100)

EducabilityFlag(context) ==
    Get(context, "stakeholder_autonomy", TRUE)
        /\ Get(context, "volitional_alignment", 50) < 50

\* variant: the volume and success branches come before the urgency branch
ReproducibilityPressureVolumeFirst(context) ==
    LET urgency        == Get(context, "urgency", 50)
        scenario_count == Get(context, "scenario_count", 10)
        success_rate   == Get(context, "success_rate", 70)
    IN  IF scenario_count > 10 /\ success_rate < 50 THEN Frac(90, 100)
        ELSE IF scenario_count > 5 /\ success_rate < 60 THEN Frac(60, 100)
        ELSE IF urgency >= 80 THEN Frac(10, 100)
        ELSE IF success_rate >= 80 THEN Frac(10, 100)
        ELSE Frac(40, 100)

ReproducibilityPressureHeuristic(context) ==
    LET urgency        == Get(context, "urgency", 50)
        scenario_count == Get(context, "scenario_count", 10)
        success_rate   == Get(context, "success_rate", 70)
    IN  IF urgency >= 80 THEN Frac(10, 100)
        ELSE IF scenario_count > 10 /\ success_rate < 50 THEN Frac(90, 100)
        ELSE IF scenario_count > 5 /\ success_rate < 60 THEN Frac(60, 100)
        ELSE IF success_rate >= 80 THEN Frac(10, 100)
        ELSE Frac(40, 100)

TransparencyReadinessHeuristic(context) ==
    LET ethical_tier == Get(context, "ethical_tier", 3)
        impact_scope == Get(context, "impact_scope", "individual")
        tier_part    == IF ethical_tier >= 4 THEN 40 ELSE 0
        scope_part   == IF impact_scope = "group" THEN 30
                        ELSE IF impact_scope = "systemic" THEN 50 ELSE 0
    IN  Frac(Min(tier_part + scope_part, 100), 100)

CalculateSvi(context) ==
    LET cognitive == Get(context, "cognitive_capacity", 50)
        legal     == IF ~Get(context, "legal_agency", TRUE) THEN 100 ELSE 0
        advocacy  == 100 - Get(context, "self_advocacy_ability", 50)
    IN  RoundHalfEven(100 - cognitive + legal + advocacy, 3)

LegalComplianceFilter(context) == Get(context, "legality", "unclear")

\* EthicalDecisionEngine.heuristics, by class name, in list order
heuristics ==
    <<"ReversibilityHeuristic", "ProportionalityHeuristic", "UncertaintyHeuristic",
      "EvidenceAdequacyHeuristic", "VolitionalMisalignmentHeuristic",
      "ReproducibilityPressureHeuristic", "TransparencyReadinessHeuristic">>

\* heuristic.evaluate(context), dispatched on the class
HeuristicEvaluate(name, context) ==
    CASE name = "ReversibilityHeuristic"           -> ReversibilityHeuristic(context)
      [] name = "ProportionalityHeuristic"         -> ProportionalityHeuristic(context)
      [] name = "UncertaintyHeuristic"             -> UncertaintyHeuristic(context)
      [] name = "EvidenceAdequacyHeuristic"        -> EvidenceAdequacyHeuristic(context)
      [] name = "VolitionalMisalignmentHeuristic"  -> VolitionalMisalignmentHeuristic(context)
      [] name = "ReproducibilityPressureHeuristic" -> ReproducibilityPressureHeuristic(context)
      [] name = "TransparencyReadinessHeuristic"   -> TransparencyReadinessHeuristic(context)

\* a denominator every raw score of the context can be written over
CommonDen(context) == 200 * ProportionalityHeuristic(context).den

\* total after the first i heuristics, as a numerator over CommonDen(context)
RECURSIVE EngineTotal(_, _)
EngineTotal(context, i) ==
    IF i = 0 THEN 0
    ELSE LET score == HeuristicEvaluate(heuristics[i], context)
         IN  EngineTotal(context, i - 1)
                 + score.num * (CommonDen(context) \div score.den)

Recommendation(normalized_pressure) ==
    IF normalized_pressure <= 330 THEN "Proceed"
    ELSE IF normalized_pressure <= 660 THEN "Proceed with caution"
    ELSE "Defer or escalate"

EngineEvaluate(context) ==
    LET scores == [i \in 1..Len(heuristics) |->
                       LET score == HeuristicEvaluate(heuristics[i], context)
                       IN  RoundHalfEven(1000 * score.num, score.den)]
        total  == EngineTotal(context, Len(heuristics))
        normalized_pressure ==
            RoundHalfEven(1000 * total, Len(heuristics) * CommonDen(context))
    IN  [heuristic_scores    |-> [name \in {heuristics[i] : i \in 1..Len(heuristics)} |->
                                      scores[CHOOSE i \in 1..Len(heuristics) :
                                                 heuristics[i] = name]],
         normalized_pressure |-> normalized_pressure,
         recommendation      |-> Recommendation(normalized_pressure),
         educate             |-> EducabilityFlag(context),
         svi                 |-> CalculateSvi(context),
         legal               |-> LegalComplianceFilter(context)]

----------------------------------------------------------------------------
(* Inputs *)

NoRequest == None

NoCall == [op |-> "none", value |-> None]

\* context maps of the ledger specification, one per tier
RoutineData ==
    [stakeholders |-> StakeholderList(2), urgency_level |-> 3,
     reversibility_score |-> 90, potential_harm_level |-> 1, system_confidence |-> 95]

StandardData ==
    [stakeholders |-> StakeholderList(3), urgency_level |-> 5,
     reversibility_score |-> 80, potential_harm_level |-> 3, system_confidence |-> 80]

HighStakesData ==
    [stakeholders |-> StakeholderList(4), urgency_level |-> 4,
     reversibility_score |-> 30, potential_harm_level |-> 7, system_confidence |-> 60]

AmbiguousData ==
    [stakeholders |-> StakeholderList(2), urgency_level |-> 5,
     reversibility_score |-> 60, potential_harm_level |-> 4, system_confidence |-> 30]

ProhibitedData ==
    [stakeholders |-> StakeholderList(1), urgency_level |-> 8,
     reversibility_score |-> 5, potential_harm_level |-> 9, system_confidence |-> 90]

LedgerInputs ==
    {RoutineData, StandardData, HighStakesData, AmbiguousData, ProhibitedData}

LongInputs == {RoutineData, AmbiguousData, ProhibitedData}

\* contexts of the specification that interleaves all four public operations
OpsInputs == {AmbiguousData, ProhibitedData}

\* a context map that holds key with one of the values, or does not hold it
Optional(key, values) == {EmptyDict} \cup {key :> v : v \in values}

\* the three inputs of ReproducibilityPressureHeuristic, one map per branch
ReproducibilityCases ==
    {EmptyDict,
     [urgency |-> 80, scenario_count |-> 11, success_rate |-> 45],
     [urgency |-> 79, scenario_count |-> 11, success_rate |-> 45],
     [scenario_count |-> 11, success_rate |-> 55],
     [scenario_count |-> 6, success_rate |-> 50],
     [scenario_count |-> 5, success_rate |-> 80],
     [scenario_count |-> 5, success_rate |-> 45]}

TransparencyCases ==
    {EmptyDict,
     [ethical_tier |-> 4, impact_scope |-> "systemic"],
     [ethical_tier |-> 4, impact_scope |-> "group"],
     [impact_scope |-> "group"],
     [ethical_tier |-> 5]}

EvidenceCases ==
    {EmptyDict,
     [evidence_quality |-> 100],
     [evidence_quality |-> 100, evidence_quantity |-> 35],
     [evidence_quality |-> 0, evidence_quantity |-> 0]}

\* context maps handed to EthicalDecisionEngine.evaluate: every field absent or
\* present, on the branch conditions, and values outside the unit interval
EngineInputs ==
    {a @@ b @@ c @@ d @@ e @@ f @@ g @@ h @@ i :
        a \in Optional("reversibility", {0, 100, 150}),
        b \in Optional("expected_benefit", {0, 30}),
        c \in Optional("expected_harm", {0, 10, -20}),
        d \in Optional("evidence_certainty", {0}),
        e \in EvidenceCases,
        f \in Optional("volitional_alignment", {20}),
        g \in Optional("stakeholder_autonomy", {FALSE}),
        h \in ReproducibilityCases,
        i \in TransparencyCases}

\* context maps with any subset of the recognized keys absent, with and
\* without domain_data and a key the framework does not know
PartialInputs ==
    {a @@ b @@ c @@ d @@ e @@ f @@ g :
        a \in Optional("stakeholders", {StakeholderList(0), StakeholderList(4),
                                        StakeholderList(MaxStakeholders)}),
        b \in Optional("urgency_level", {2, 5}),
        c \in Optional("reversibility_score", {5, 50, 80}),
        d \in Optional("potential_harm_level", {1, 3, 6, 9}),
        e \in Optional("system_confidence", {30, 70, 95}),
        f \in Optional("domain_data", {[legality |-> "unclear"]}),
        g \in Optional("priority", {1})}

\* complete context maps with values in and outside the documented ranges;
\* process_ethical_decision takes whatever the map holds
UnvalidatedInputs ==
    [stakeholders         : {StakeholderList(n) : n \in {0, 3, 4, MaxStakeholders}},
     urgency_level        : {-1, 5, 11},
     reversibility_score  : {-50, 5, 50, 90, 150},
     potential_harm_level : {-5, 0, 1, 2, 3, 5, 11},
     system_confidence    : {-10, 30, 69, 70, 95, 120}]

OpenInputs == PartialInputs \cup UnvalidatedInputs

\* context maps for ReproducibilityPressureHeuristic alone: each of its three
\* fields absent or on and around its thresholds
ReproducibilityInputs ==
    {a @@ b @@ c :
        a \in Optional("urgency", {0, 79, 80, 100}),
        b \in Optional("scenario_count", {0, 5, 6, 10, 11, 20}),
        c \in Optional("success_rate", {0, 49, 50, 59, 60, 79, 80, 100})}

\* the grid of the single-call specification: values on and around every threshold
HarmGrid == 1..10
UrgencyGrid == {1, 2, 3, 5}
ReversibilityGrid == {0, 5, 9, 10, 29, 30, 49, 50, 69, 70, 80, 90, 100}
ConfidenceGrid == {30, 39, 40, 49, 50, 60, 69, 70, 90, 95}

CallInputs ==
    {[stakeholders |-> StakeholderList(n), urgency_level |-> u,
      reversibility_score |-> r, potential_harm_level |-> h, system_confidence |-> c] :
        n \in 0..MaxStakeholders, u \in UrgencyGrid, r \in ReversibilityGrid,
        h \in HarmGrid, c \in ConfidenceGrid}

----------------------------------------------------------------------------
(* Operations *)

ProcessEthicalDecision(decision_request, context_data) ==
    \E f \in {RunPipeline(decision_request, context_data, decision_log)} :
        /\ decision_log' = f.log
        /\ ret' = [op |-> "process_ethical_decision", value |-> DecisionResult(f)]
        /\ eap' = f.eap
        /\ stages' = f.stages
        /\ classified' = [classified EXCEPT ![f.evaluation.assigned_tier] = @ + 1]
        /\ UNCHANGED <<tier_thresholds, action_filters>>

\* a caller processes one decision; the ledger is explored up to MaxLog entries
Decide ==
    /\ Len(decision_log) < MaxLog
    /\ \E context_data \in LedgerInputs :
           ProcessEthicalDecision("decision", context_data)
    /\ UNCHANGED request

DecideLong ==
    /\ Len(decision_log) < MaxLongLog
    /\ \E context_data \in LongInputs :
           ProcessEthicalDecision("decision", context_data)
    /\ UNCHANGED request

DecideOps ==
    /\ Len(decision_log) < MaxOpsLog
    /\ \E context_data \in OpsInputs :
           ProcessEthicalDecision("decision", context_data)
    /\ UNCHANGED request

\* the pending request of the single-call specification is processed
Call ==
    /\ request # NoRequest
    /\ ProcessEthicalDecision("decision", request)
    /\ request' = NoRequest

\* one call on a new framework; the caller's map is left as it is
CallOpen ==
    /\ ret = NoCall
    /\ request # NoRequest
    /\ ProcessEthicalDecision("decision", request)
    /\ UNCHANGED request

\* ReproducibilityPressureHeuristic().evaluate(request)
EvaluateReproducibility ==
    /\ ret = NoCall
    /\ request # NoRequest
    /\ ret' = [op |-> "reproducibility_pressure",
               value |-> ReproducibilityPressureHeuristic(request)]
    /\ UNCHANGED <<decision_log, eap, stages, classified, request,
                   tier_thresholds, action_filters>>

\* EthicalDecisionEngine().evaluate(request); the caller's map is left as it is
Evaluate ==
    /\ ret = NoCall
    /\ request # NoRequest
    /\ ret' = [op |-> "evaluate", value |-> EngineEvaluate(request)]
    /\ UNCHANGED <<decision_log, eap, stages, classified, request,
                   tier_thresholds, action_filters>>

Analyze ==
    /\ ret' = [op |-> "analyze_patterns", value |-> AnalyzePatterns(decision_log)]
    /\ UNCHANGED <<decision_log, eap, stages, classified, request,
                   tier_thresholds, action_filters>>

Recommend ==
    /\ ret' = [op |-> "recommend_adjustments", value |-> RecommendAdjustments(decision_log)]
    /\ UNCHANGED <<decision_log, eap, stages, classified, request,
                   tier_thresholds, action_filters>>

Status ==
    /\ ret' = [op |-> "get_system_status", value |-> GetSystemStatus(decision_log)]
    /\ UNCHANGED <<decision_log, eap, stages, classified, request,
                   tier_thresholds, action_filters>>

Init ==
    /\ decision_log = <<>>
    /\ ret = NoCall
    /\ eap = EapIdle
    /\ stages = <<>>
    /\ classified = [tier \in EthicalTier |-> 0]
    /\ tier_thresholds = InitializeThresholds
    /\ action_filters = InitializeFilters
    /\ request = NoRequest

InitCall ==
    /\ decision_log = <<>>
    /\ ret = NoCall
    /\ eap = EapIdle
    /\ stages = <<>>
    /\ classified = [tier \in EthicalTier |-> 0]
    /\ tier_thresholds = InitializeThresholds
    /\ action_filters = InitializeFilters
    /\ request \in CallInputs

InitEngine ==
    /\ decision_log = <<>>
    /\ ret = NoCall
    /\ eap = EapIdle
    /\ stages = <<>>
    /\ classified = [tier \in EthicalTier |-> 0]
    /\ tier_thresholds = InitializeThresholds
    /\ action_filters = InitializeFilters
    /\ request \in EngineInputs

InitOpen ==
    /\ decision_log = <<>>
    /\ ret = NoCall
    /\ eap = EapIdle
    /\ stages = <<>>
    /\ classified = [tier \in EthicalTier |-> 0]
    /\ tier_thresholds = InitializeThresholds
    /\ action_filters = InitializeFilters
    /\ request \in OpenInputs

InitReproducibility ==
    /\ decision_log = <<>>
    /\ ret = NoCall
    /\ eap = EapIdle
    /\ stages = <<>>
    /\ classified = [tier \in EthicalTier |-> 0]
    /\ tier_thresholds = InitializeThresholds
    /\ action_filters = InitializeFilters
    /\ request \in ReproducibilityInputs

Next == Decide \/ Analyze \/ Status

NextLong == DecideLong \/ Recommend

NextCall == Call

NextEngine == Evaluate

NextReproducibility == EvaluateReproducibility

NextOpen == CallOpen

NextOps == DecideOps \/ Analyze \/ Recommend \/ Status

\* the facade over ledgers of all five tiers
Spec == Init /\ [][Next]_vars

\* the facade over long ledgers
SpecLong == Init /\ [][NextLong]_vars

\* one call of the pipeline on every context map of the grid
SpecCall == InitCall /\ [][NextCall]_vars

\* one call with a map that may lack keys or hold values outside their ranges
SpecOpen == InitOpen /\ [][NextOpen]_vars

\* one evaluation of a context map by the Reproducibility Pressure heuristic
SpecReproducibility == InitReproducibility /\ [][NextReproducibility]_vars

\* one evaluation of a context map by the heuristic engine
SpecEngine == InitEngine /\ [][NextEngine]_vars

\* every public operation of the framework, in any order
SpecOps == Init /\ [][NextOps]_vars

----------------------------------------------------------------------------
(* Properties *)

\* the most recent call was process_ethical_decision
Decided == ret.op = "process_ethical_decision"

LastEntry == decision_log[Len(decision_log)]

LastContext == LastEntry.context

LastTier == ret.value.ethical_evaluation.tier

MidTiers == {"TIER_2_STANDARD", "TIER_3_HIGH_STAKES", "TIER_4_AMBIGUOUS"}

\* the predicates of the five tier rules, as the specification states them
ProhibitedRule(c) == c.potential_harm_level >= 9 /\ c.reversibility_score < 10
AmbiguousRule(c) == c.system_confidence < 40 \/ Len(c.stakeholders) > 10
HighStakesRule(c) == c.potential_harm_level >= 6 \/ c.reversibility_score < 50
StandardRule(c, h) == c.potential_harm_level >= 3 \/ Len(h) >= 1

\* C1: every processed context receives exactly one of the five tiers, the tier
\* of the first matching rule in the order Prohibited, Ambiguous, HighStakes,
\* Standard, Routine; a context that satisfies the Prohibited predicate is
\* Prohibited even when it also satisfies the Ambiguous or HighStakes predicate.
C1_TierFirstMatch ==
    Decided =>
        LET c == LastContext
            h == LastEntry.evaluation.heuristics_triggered
        IN  /\ LastTier \in EthicalTier
            /\ LastTier = LastEntry.evaluation.assigned_tier
            /\ LastTier =
                 (IF ProhibitedRule(c) THEN "TIER_5_PROHIBITED"
                  ELSE IF AmbiguousRule(c) THEN "TIER_4_AMBIGUOUS"
                  ELSE IF HighStakesRule(c) THEN "TIER_3_HIGH_STAKES"
                  ELSE IF StandardRule(c, h) THEN "TIER_2_STANDARD"
                  ELSE "TIER_1_ROUTINE")
            /\ ProhibitedRule(c) => LastTier = "TIER_5_PROHIBITED"

C1_Witness ==
    /\ Decided
    /\ ProhibitedRule(LastContext)
    /\ AmbiguousRule(LastContext)
    /\ HighStakesRule(LastContext)
    /\ LastTier = "TIER_5_PROHIBITED"

\* C2: a context with harm >= 9 and reversibility < 0.1 is Prohibited whatever
\* its confidence, urgency and stakeholders; the result is the fixed "block"
\* action, no candidate is generated, and the routing requires human review.
C2_ProhibitedBlocks ==
    (Decided /\ ProhibitedRule(LastContext)) =>
        /\ LastTier = "TIER_5_PROHIBITED"
        /\ DOMAIN ret.value.recommended_action = {"action", "justification"}
        /\ ret.value.recommended_action.action = "block"
        /\ LastEntry.action = ret.value.recommended_action
        /\ ~eap.ran
        /\ eap.options = <<>>
        /\ ret.value.routing.human_review = TRUE

C2_Witness ==
    /\ Decided
    /\ ProhibitedRule(LastContext)
    /\ LastContext.system_confidence < 40
    /\ Len(LastContext.stakeholders) > 10
    /\ LastContext.urgency_level = 1
    /\ ret.value.recommended_action.action = "block"
    /\ ret.value.routing.human_review

\* C3 (as claimed): a Routine context yields the fixed "proceed normally"
\* action and performs no candidate generation, filtering or scoring.
C3_RoutineProceedsNormally ==
    (Decided /\ LastTier = "TIER_1_ROUTINE") =>
        /\ DOMAIN ret.value.recommended_action = {"action", "justification"}
        /\ ret.value.recommended_action.action = "proceed_normally"
        /\ ~eap.ran
        /\ eap.options = <<>>
        /\ eap.filtered_options = <<>>

\* the part of C3 the facade does satisfy: a Routine context runs no candidate
\* generation, filtering or scoring and gets one fixed action
C3_RoutineRunsNoPathway ==
    (Decided /\ LastTier = "TIER_1_ROUTINE") =>
        /\ ret.value.recommended_action =
               [action |-> "proceed", justification |-> "Routine decision"]
        /\ eap = EapIdle

\* the routing table of the specification
RoutingTable(tier) ==
    CASE tier = "TIER_1_ROUTINE"     -> <<"direct_execution", FALSE>>
      [] tier = "TIER_2_STANDARD"    -> <<"automatic_execution", FALSE>>
      [] tier = "TIER_3_HIGH_STAKES" -> <<"rap_monitoring", FALSE>>
      [] tier = "TIER_4_AMBIGUOUS"   -> <<"human_review_required", TRUE>>
      [] tier = "TIER_5_PROHIBITED"  -> <<"blocked_and_flagged", TRUE>>

\* C4: the routing directive is the fixed function of the assigned tier given
\* by the routing table; human review is required exactly for Ambiguous and
\* Prohibited, and the "unknown" fallback route is never returned.
C4_RoutingByTier ==
    Decided =>
        /\ DOMAIN ret.value.routing = {"route", "human_review"}
        /\ <<ret.value.routing.route, ret.value.routing.human_review>>
               = RoutingTable(LastTier)
        /\ ret.value.routing.human_review
               <=> LastTier \in {"TIER_4_AMBIGUOUS", "TIER_5_PROHIBITED"}
        /\ ret.value.routing.route # "unknown"

C4_Witness ==
    /\ Decided
    /\ LastTier = "TIER_3_HIGH_STAKES"
    /\ ret.value.routing = [route |-> "rap_monitoring", human_review |-> FALSE]
    /\ LastContext.system_confidence = 40

\* C10: for a Standard, HighStakes or Ambiguous context the pathway generates
\* exactly the three candidates proceed, modified_proceed, defer, in that order:
\* proceed copies harm, reversibility and confidence; modified_proceed has
\* harm max(0, harm-2), reversibility min(1.0, reversibility+0.2), the same
\* confidence; defer has harm 1, reversibility 1.0, confidence 0.9; and
\* alternatives_considered is 3.
C10_ThreeCandidates ==
    (Decided /\ LastTier \in MidTiers) =>
        LET c == LastContext
            o == eap.options
        IN  /\ eap.ran
            /\ Len(o) = 3
            /\ <<o[1].id, o[2].id, o[3].id>> = <<"proceed", "modified_proceed", "defer">>
            /\ o[1].harm_score = c.potential_harm_level
            /\ o[1].reversibility = c.reversibility_score
            /\ o[1].confidence = c.system_confidence
            /\ o[2].harm_score = (IF c.potential_harm_level - 2 < 0 THEN 0
                                  ELSE c.potential_harm_level - 2)
            /\ o[2].reversibility = (IF c.reversibility_score + 20 > 100 THEN 100
                                     ELSE c.reversibility_score + 20)
            /\ o[2].confidence = c.system_confidence
            /\ o[3].harm_score = 1
            /\ o[3].reversibility = 100
            /\ o[3].confidence = 90
            /\ ret.value.recommended_action.alternatives_considered = 3

C10_Witness ==
    /\ Decided
    /\ LastTier = "TIER_4_AMBIGUOUS"
    /\ LastContext.potential_harm_level = 1
    /\ LastContext.reversibility_score = 90
    /\ Len(eap.options) = 3
    /\ eap.options[2].harm_score = 0
    /\ eap.options[2].reversibility = 100

----------------------------------------------------------------------------
(* Properties of the ledger *)

PipelineStages == <<"classify", "act", "log", "route">>

\* the number of process_ethical_decision calls so far
RECURSIVE SumOver(_, _)
SumOver(f, S) ==
    IF S = {} THEN 0
    ELSE LET x == CHOOSE y \in S : TRUE IN f[x] + SumOver(f, S \ {x})

Calls == SumOver(classified, EthicalTier)

\* how many entries of the whole ledger carry the tier
CountTier(tier) ==
    Cardinality({i \in 1..Len(decision_log) :
                    decision_log[i].evaluation.assigned_tier = tier})

\* a ledger entry holds the evaluation and the action of the returned result
EntryHoldsResult(entry, result) ==
    /\ DOMAIN entry = {"context", "evaluation", "action", "outcome"}
    /\ "assigned_tier" \in DOMAIN entry.evaluation
    /\ "action" \in DOMAIN entry.action
    /\ entry.evaluation.assigned_tier = result.ethical_evaluation.tier
    /\ entry.evaluation.justification = result.ethical_evaluation.justification
    /\ entry.evaluation.confidence_score = result.ethical_evaluation.confidence
    /\ entry.evaluation.relevant_tenets = result.ethical_evaluation.tenets
    /\ entry.evaluation.confidence_score = entry.context.system_confidence
    /\ entry.action = result.recommended_action

C5_LedgerState ==
    /\ Len(decision_log) = Calls
    /\ Len(decision_log) > 0 => stages = PipelineStages
    /\ Decided => EntryHoldsResult(LastEntry, ret.value)

C5_CallStep ==
    (classified' # classified \/ decision_log' # decision_log) =>
        /\ Calls' = Calls + 1
        /\ Len(decision_log') = Len(decision_log) + 1
        /\ SubSeq(decision_log', 1, Len(decision_log)) = decision_log
        /\ ret'.op = "process_ethical_decision"
        /\ stages' = PipelineStages
        /\ EntryHoldsResult(decision_log'[Len(decision_log')], ret'.value)
        /\ decision_log'[Len(decision_log')].context
               \in {DecisionContext("decision", d) : d \in LedgerInputs}

\* C5: every call runs classify, act, log, route in that order and appends
\* exactly one ledger entry, after one evaluation and one action result were
\* produced, holding that context, evaluation and action; after n calls the
\* ledger holds n entries in call order.
C5_OneEntryPerCall == []C5_LedgerState /\ [][C5_CallStep]_vars

C5_Witness ==
    /\ Decided
    /\ Len(decision_log) = 3
    /\ Calls = 3
    /\ decision_log[1].evaluation.assigned_tier = "TIER_3_HIGH_STAKES"
    /\ decision_log[2].evaluation.assigned_tier = "TIER_1_ROUTINE"
    /\ decision_log[3].evaluation.assigned_tier = "TIER_5_PROHIBITED"
    /\ decision_log[3].action = ret.value.recommended_action

\* C6: analyze_patterns returns the insufficient-data marker with the entry
\* count when the ledger holds fewer than 5 entries, and otherwise the tier
\* tally over the whole ledger with total_decisions equal to its length.
C6_AnalysisOverWholeLedger ==
    (ret.op = "analyze_patterns") =>
        IF Len(decision_log) < 5
        THEN ret.value = [status |-> "insufficient_data", entries |-> Len(decision_log)]
        ELSE /\ DOMAIN ret.value = {"total_decisions", "tier_distribution"}
             /\ ret.value.total_decisions = Len(decision_log)
             /\ \A tier \in EthicalTier :
                    Get(ret.value.tier_distribution, tier, 0) = CountTier(tier)

C6_Witness ==
    /\ ret.op = "analyze_patterns"
    /\ Len(decision_log) = 6
    /\ decision_log[1].evaluation.assigned_tier = "TIER_4_AMBIGUOUS"
    /\ \A i \in 2..6 : decision_log[i].evaluation.assigned_tier = "TIER_2_STANDARD"
    /\ ret.value.total_decisions = 6
    /\ ret.value.tier_distribution["TIER_4_AMBIGUOUS"] = 1

MonitoringMessage == "Continue monitoring - more data needed for reliable patterns"
Tier4Advice ==
    "High rate of Tier 4 decisions suggests need for better heuristics or training data"
ProhibitedAdvice ==
    "Prohibited decisions detected - review input filtering and validation"

\* C7: with fewer than 10 ledger entries recommend_adjustments returns only the
\* single "continue monitoring" message, however many Ambiguous or Prohibited
\* entries the ledger holds.
C7_NoAdviceBelowTen ==
    (ret.op = "recommend_adjustments" /\ Len(decision_log) < 10) =>
        ret.value = <<MonitoringMessage>>

C7_Witness ==
    /\ ret.op = "recommend_adjustments"
    /\ Len(decision_log) = 9
    /\ CountTier("TIER_4_AMBIGUOUS") = 5
    /\ CountTier("TIER_5_PROHIBITED") = 4
    /\ ret.value = <<MonitoringMessage>>

\* C8: with at least 10 ledger entries recommend_adjustments gives the Tier-4
\* advice exactly when the Ambiguous entries are strictly more than 30% of all
\* entries, the Prohibited advice exactly when a Prohibited entry exists, and
\* an empty list when neither holds.
C8_AdviceFromTen ==
    (ret.op = "recommend_adjustments" /\ Len(decision_log) >= 10) =>
        LET flag4 == 10 * CountTier("TIER_4_AMBIGUOUS") > 3 * Len(decision_log)
            flag5 == CountTier("TIER_5_PROHIBITED") >= 1
        IN  /\ InSeq(Tier4Advice, ret.value) <=> flag4
            /\ InSeq(ProhibitedAdvice, ret.value) <=> flag5
            /\ ~InSeq(MonitoringMessage, ret.value)
            /\ Len(ret.value) = (IF flag4 THEN 1 ELSE 0) + (IF flag5 THEN 1 ELSE 0)
            /\ (~flag4 /\ ~flag5) => ret.value = <<>>

C8_Witness ==
    /\ ret.op = "recommend_adjustments"
    /\ Len(decision_log) = 10
    /\ CountTier("TIER_4_AMBIGUOUS") = 3
    /\ CountTier("TIER_5_PROHIBITED") = 0
    /\ ret.value = <<>>

\* C9: after at least 5 logged decisions the tier_distribution of
\* analyze_patterns maps each tier to the number of decisions classified into
\* it when they were logged; the counts sum to the ledger length and a tier
\* with no logged decision does not appear.
C9_TierCountsRoundTrip ==
    (ret.op = "analyze_patterns" /\ Len(decision_log) >= 5) =>
        LET dist == ret.value.tier_distribution
        IN  /\ DOMAIN dist = {tier \in EthicalTier : classified[tier] > 0}
            /\ \A tier \in DOMAIN dist : dist[tier] = classified[tier]
            /\ SumOver(dist, DOMAIN dist) = Len(decision_log)

C9_Witness ==
    /\ ret.op = "analyze_patterns"
    /\ Len(decision_log) = 5
    /\ classified["TIER_1_ROUTINE"] = 2
    /\ classified["TIER_5_PROHIBITED"] = 3
    /\ DOMAIN ret.value.tier_distribution = {"TIER_1_ROUTINE", "TIER_5_PROHIBITED"}
    /\ ret.value.tier_distribution["TIER_5_PROHIBITED"] = 3

----------------------------------------------------------------------------
(* Properties of the Action Pathway *)

\* the action the pathway selected in the most recent decision
SelectedAction == ret.value.recommended_action.action

\* the three hard constraints, as the specification states them
MeetsConstraints(o) ==
    o.harm_score <= 5 /\ o.reversibility >= 30 /\ o.confidence >= 50

\* the weighted score of the specification, in thousandths
WeightedScore(o) == (10 - o.harm_score) * 400 + o.reversibility * 3 + o.confidence * 3

\* C11: filtering keeps a candidate iff it passes all three hard constraints;
\* the filtered list is an order-preserving sub-list of the generated
\* candidates; a selected candidate (not the no-action sentinel) satisfies all
\* three constraints.
C11_FilterKeepsExactlyPassing ==
    (Decided /\ LastTier \in MidTiers) =>
        /\ eap.filtered_options = SelectSeq(eap.options, MeetsConstraints)
        /\ \A i \in 1..Len(eap.filtered_options) :
               InSeq(eap.filtered_options[i], eap.options)
        /\ ret.value.recommended_action.options_after_filtering
               = Len(eap.filtered_options)
        /\ "id" \in DOMAIN SelectedAction
        /\ SelectedAction.id # "no_action" =>
               /\ InSeq(SelectedAction, eap.filtered_options)
               /\ MeetsConstraints(SelectedAction)

C11_Witness ==
    /\ Decided
    /\ LastTier = "TIER_3_HIGH_STAKES"
    /\ Len(eap.options) = 3
    /\ eap.options[1].harm_score = 5
    /\ eap.options[1].reversibility = 29
    /\ eap.filtered_options = <<eap.options[2], eap.options[3]>>
    /\ MeetsConstraints(SelectedAction)

\* C12: from a non-empty list of survivors the candidate with the maximal
\* weighted score is selected, and among several of maximal score the one that
\* comes first in candidate order.
C12_SelectsFirstMaximum ==
    (Decided /\ LastTier \in MidTiers /\ Len(eap.filtered_options) > 0) =>
        \E i \in 1..Len(eap.filtered_options) :
            /\ SelectedAction = eap.filtered_options[i]
            /\ \A j \in 1..Len(eap.filtered_options) :
                   WeightedScore(eap.filtered_options[j]) <= WeightedScore(SelectedAction)
            /\ \A j \in 1..(i - 1) :
                   WeightedScore(eap.filtered_options[j]) < WeightedScore(SelectedAction)

C12_Witness ==
    /\ Decided
    /\ LastTier \in MidTiers
    /\ Len(eap.filtered_options) = 3
    /\ WeightedScore(eap.filtered_options[2]) = WeightedScore(eap.filtered_options[3])
    /\ WeightedScore(eap.filtered_options[1]) < WeightedScore(eap.filtered_options[2])
    /\ SelectedAction.id = "modified_proceed"

\* C14: the context harm=7, reversibility=0.3, confidence=0.6 with four
\* stakeholders is HighStakes; three candidates are generated; the unmodified
\* proceed candidate (harm 7) is removed; exactly the safeguards candidate
\* (harm 5) and the defer candidate survive; the selected action is one of them.
C14_HiringScenario ==
    (/\ Decided
     /\ LastContext.potential_harm_level = 7
     /\ LastContext.reversibility_score = 30
     /\ LastContext.system_confidence = 60
     /\ Len(LastContext.stakeholders) = 4) =>
        /\ LastTier = "TIER_3_HIGH_STAKES"
        /\ Len(eap.options) = 3
        /\ eap.options[1].id = "proceed"
        /\ eap.options[1].harm_score = 7
        /\ ~InSeq(eap.options[1], eap.filtered_options)
        /\ eap.options[2].id = "modified_proceed"
        /\ eap.options[2].harm_score = 5
        /\ eap.options[3].id = "defer"
        /\ eap.filtered_options = <<eap.options[2], eap.options[3]>>
        /\ InSeq(SelectedAction, eap.filtered_options)

C14_Witness ==
    /\ Decided
    /\ LastContext = DecisionContext("decision", HighStakesData)
    /\ LastContext.potential_harm_level = 7
    /\ LastContext.urgency_level = 4
    /\ Len(eap.filtered_options) = 2
    /\ SelectedAction.id \in {"modified_proceed", "defer"}

----------------------------------------------------------------------------
(* Properties of the ledger and of the configuration under all operations *)

QueryOps == {"analyze_patterns", "recommend_adjustments", "get_system_status"}

\* C15: the ledger is append-only: a decision adds exactly one entry at the
\* end and leaves every earlier entry in place; analyze_patterns,
\* recommend_adjustments and get_system_status leave the ledger unchanged; no
\* operation removes or reorders entries.
C15_Step ==
    /\ Len(decision_log') >= Len(decision_log)
    /\ \A i \in 1..Len(decision_log) : decision_log'[i] = decision_log[i]
    /\ ret'.op = "process_ethical_decision" =>
           /\ Len(decision_log') = Len(decision_log) + 1
           /\ decision_log' = Append(decision_log, decision_log'[Len(decision_log')])
    /\ ret'.op \in QueryOps => decision_log' = decision_log

C15_LedgerAppendOnly == [][C15_Step]_vars

C15_Witness ==
    /\ Len(decision_log) = 6
    /\ ret.op = "recommend_adjustments"
    /\ decision_log[1].evaluation.assigned_tier = "TIER_5_PROHIBITED"
    /\ decision_log[6].evaluation.assigned_tier = "TIER_4_AMBIGUOUS"

\* what a decision returns that the caller acts on
Verdict(result) ==
    [tier    |-> result.ethical_evaluation.tier,
     action  |-> result.recommended_action,
     routing |-> result.routing]

\* the verdict of a framework with an empty ledger on the same context map
FreshVerdict(context_data) ==
    Verdict(DecisionResult(RunPipeline("decision", context_data, <<>>)))

\* C16: tier, action and routing returned for a context are a function of the
\* context alone: after any history the call returns what a framework with an
\* empty ledger returns, and what every earlier decision on the same context
\* got; no operation changes the tier thresholds or the action filters.
C16_Step ==
    /\ tier_thresholds' = tier_thresholds
    /\ action_filters' = action_filters
    /\ ret'.op = "process_ethical_decision" =>
           LET new == decision_log'[Len(decision_log')]
           IN  /\ \E context_data \in OpsInputs :
                      /\ new.context = DecisionContext("decision", context_data)
                      /\ Verdict(ret'.value) = FreshVerdict(context_data)
               /\ \A i \in 1..Len(decision_log) :
                      decision_log[i].context = new.context =>
                          /\ decision_log[i].evaluation = new.evaluation
                          /\ decision_log[i].action = new.action

C16_VerdictFromContextAlone ==
    /\ [](tier_thresholds = InitializeThresholds /\ action_filters = InitializeFilters)
    /\ [][C16_Step]_vars

C16_Witness ==
    /\ Decided
    /\ Len(decision_log) = MaxOpsLog
    /\ LastTier = "TIER_4_AMBIGUOUS"
    /\ decision_log[1].context = LastContext
    /\ \E i \in 2..9 : decision_log[i].evaluation.assigned_tier = "TIER_5_PROHIBITED"
    /\ RecommendAdjustments(decision_log) # <<MonitoringMessage>>
    /\ Verdict(ret.value) = FreshVerdict(AmbiguousData)

----------------------------------------------------------------------------
(* Properties of the heuristic engine *)

Evaluated == ret.op = "evaluate"

InUnitInterval(score) == 0 <= score.num /\ score.num <= score.den

\* the seven scores the heuristics return for the evaluated map
ReturnedScores ==
    <<ReversibilityHeuristic(request), ProportionalityHeuristic(request),
      UncertaintyHeuristic(request), EvidenceAdequacyHeuristic(request),
      VolitionalMisalignmentHeuristic(request),
      ReproducibilityPressureHeuristic(request),
      TransparencyReadinessHeuristic(request)>>

\* 2 * |7 * normalized_pressure - 1000 * (sum of the seven scores)| <= 7,
\* over the common denominator: the pressure is the mean rounded to thousandths
PressureIsRoundedMean ==
    LET D     == CommonDen(request)
        sum   == ReturnedScores[1].num * (D \div ReturnedScores[1].den)
               + ReturnedScores[2].num * (D \div ReturnedScores[2].den)
               + ReturnedScores[3].num * (D \div ReturnedScores[3].den)
               + ReturnedScores[4].num * (D \div ReturnedScores[4].den)
               + ReturnedScores[5].num * (D \div ReturnedScores[5].den)
               + ReturnedScores[6].num * (D \div ReturnedScores[6].den)
               + ReturnedScores[7].num * (D \div ReturnedScores[7].den)
        diff  == 7 * D * ret.value.normalized_pressure - 1000 * sum
    IN  /\ Cardinality(DOMAIN ret.value.heuristic_scores) = 7
        /\ 2 * diff <= 7 * D
        /\ 2 * diff >= 0 - 7 * D

\* C17: for every context map each of the seven heuristics returns a score in
\* [0,1], and normalized_pressure is the arithmetic mean of exactly those seven
\* scores rounded to 3 decimals.
C17_ScoresInUnitInterval ==
    Evaluated =>
        /\ \A i \in 1..7 : InUnitInterval(ReturnedScores[i])
        /\ \A name \in DOMAIN ret.value.heuristic_scores :
               ret.value.heuristic_scores[name] \in 0..1000
        /\ PressureIsRoundedMean

UnitFields ==
    {"reversibility", "expected_benefit", "expected_harm", "evidence_certainty",
     "evidence_quality", "evidence_quantity", "volitional_alignment",
     "urgency", "success_rate"}

FieldsInUnitInterval(context) ==
    \A key \in DOMAIN context \cap UnitFields : context[key] \in 0..100

\* the part of C17 that the engine does satisfy: the pressure is always the
\* rounded mean of the seven returned scores, and the scores are in [0,1]
\* whenever every real-valued field of the map is
C17_HoldsOnUnitFields ==
    Evaluated =>
        /\ PressureIsRoundedMean
        /\ FieldsInUnitInterval(request) =>
               /\ \A i \in 1..7 : InUnitInterval(ReturnedScores[i])
               /\ ret.value.normalized_pressure \in 0..1000

----------------------------------------------------------------------------
(* Properties of the entry point on arbitrary maps *)

\* the ranges the data model documents for the numeric fields
InDocumentedRanges(c) ==
    /\ c.urgency_level \in 1..10
    /\ c.potential_harm_level \in 1..10
    /\ c.reversibility_score \in 0..100
    /\ c.system_confidence \in 0..100

\* C18: a context whose numeric fields lie outside their documented ranges is
\* rejected: it is never classified into a tier, given an action or appended
\* to the ledger.
C18_OutOfRangeRejected ==
    (ret # NoCall /\ ~InDocumentedRanges(DecisionContext("decision", request))) =>
        /\ decision_log = <<>>
        /\ classified = [tier \in EthicalTier |-> 0]
        /\ "ethical_evaluation" \notin DOMAIN ret.value
        /\ "recommended_action" \notin DOMAIN ret.value

\* the map with the documented defaults written out for its missing keys,
\* and without the keys the framework does not know
WithDefaults(m) ==
    [stakeholders         |-> IF "stakeholders" \in DOMAIN m THEN m.stakeholders ELSE <<>>,
     urgency_level        |-> IF "urgency_level" \in DOMAIN m THEN m.urgency_level ELSE 5,
     reversibility_score  |-> IF "reversibility_score" \in DOMAIN m
                              THEN m.reversibility_score ELSE 50,
     potential_harm_level |-> IF "potential_harm_level" \in DOMAIN m
                              THEN m.potential_harm_level ELSE 3,
     system_confidence    |-> IF "system_confidence" \in DOMAIN m
                              THEN m.system_confidence ELSE 70]
    @@ (IF "domain_data" \in DOMAIN m THEN [domain_data |-> m.domain_data] ELSE EmptyDict)

RecognizedKeys ==
    {"stakeholders", "urgency_level", "reversibility_score",
     "potential_harm_level", "system_confidence"}

\* C19: a map that lacks any subset of the recognized keys is processed
\* without an error outcome and yields the tier, action, routing and the one
\* new ledger entry of the map with the defaults stakeholders=[], urgency=5,
\* reversibility=0.5, harm=3, confidence=0.7 supplied explicitly; unknown keys
\* do not affect the result.
C19_DefaultsForMissingKeys ==
    ret # NoCall =>
        \E f \in {RunPipeline("decision", WithDefaults(request), <<>>)} :
            /\ ret.op = "process_ethical_decision"
            /\ ret.value = DecisionResult(f)
            /\ Len(decision_log) = 1
            /\ decision_log = f.log
            /\ \A key \in RecognizedKeys \ DOMAIN request :
                   LastContext[key] = WithDefaults(EmptyDict)[key]

C19_Witness ==
    /\ Decided
    /\ DOMAIN request = {"urgency_level", "priority"}
    /\ LastTier = "TIER_2_STANDARD"
    /\ LastContext.potential_harm_level = 3
    /\ LastContext.system_confidence = 70
    /\ LastContext.reversibility_score = 50
    /\ LastContext.stakeholders = <<>>
    /\ Len(decision_log) = 1

LastTenets == ret.value.ethical_evaluation.tenets

\* C20: the relevant-tenet list is non-empty and holds NonMaleficence iff
\* harm > 0, Justice iff consensus-needed triggered (stakeholder count > 3),
\* IntellectualHonesty iff confidence < 0.7, Beneficence iff no other tenet was
\* selected or harm < 3; no tenet appears twice.
C20_RelevantTenets ==
    Decided =>
        LET c == LastContext
            others == {"non_maleficence", "justice", "intellectual_honesty"}
        IN  /\ Len(LastTenets) > 0
            /\ InSeq("non_maleficence", LastTenets) <=> c.potential_harm_level > 0
            /\ InSeq("justice", LastTenets) <=> Len(c.stakeholders) > 3
            /\ InSeq("justice", LastTenets)
                   <=> InSeq("consensus_needed", LastEntry.evaluation.heuristics_triggered)
            /\ InSeq("intellectual_honesty", LastTenets) <=> c.system_confidence < 70
            /\ InSeq("beneficence", LastTenets)
                   <=> \/ \A t \in others : ~InSeq(t, LastTenets)
                       \/ c.potential_harm_level < 3
            /\ \A i, j \in 1..Len(LastTenets) : LastTenets[i] = LastTenets[j] => i = j
            /\ \A i \in 1..Len(LastTenets) : LastTenets[i] \in others \cup {"beneficence"}

C20_Witness ==
    /\ Decided
    /\ LastContext.potential_harm_level = 2
    /\ LastContext.system_confidence = 69
    /\ Len(LastContext.stakeholders) = 4
    /\ LastTenets = <<"non_maleficence", "justice", "intellectual_honesty", "beneficence">>

----------------------------------------------------------------------------
(* Properties of the Reproducibility Pressure heuristic *)

\* the returned score in hundredths
ReproducibilityScore == (100 * ret.value.num) \div ret.value.den

\* the fields as the heuristic reads them
ReadUrgency == IF "urgency" \in DOMAIN request THEN request.urgency ELSE 50
ReadScenarioCount ==
    IF "scenario_count" \in DOMAIN request THEN request.scenario_count ELSE 10
ReadSuccessRate ==
    IF "success_rate" \in DOMAIN request THEN request.success_rate ELSE 70

\* C21: the branches are taken in the stated order, first match wins:
\* urgency >= 0.8 gives 0.1 even when scenario_count > 10 and success_rate < 0.5;
\* otherwise scenario_count > 10 and success_rate < 0.5 gives 0.9; otherwise
\* scenario_count > 5 and success_rate < 0.6 gives 0.6; otherwise
\* success_rate >= 0.8 gives 0.1; otherwise 0.4; the result is always one of
\* 0.1, 0.4, 0.6, 0.9.
C21_ReproducibilityBranchOrder ==
    ret.op = "reproducibility_pressure" =>
        LET first  == ReadUrgency >= 80
            second == ReadScenarioCount > 10 /\ ReadSuccessRate < 50
            third  == ReadScenarioCount > 5 /\ ReadSuccessRate < 60
            fourth == ReadSuccessRate >= 80
        IN  /\ ret.value.den = 100
            /\ ReproducibilityScore \in {10, 40, 60, 90}
            /\ first => ReproducibilityScore = 10
            /\ (~first /\ second) => ReproducibilityScore = 90
            /\ (~first /\ ~second /\ third) => ReproducibilityScore = 60
            /\ (~first /\ ~second /\ ~third /\ fourth) => ReproducibilityScore = 10
            /\ (~first /\ ~second /\ ~third /\ ~fourth) => ReproducibilityScore = 40

C21_Witness ==
    /\ ret.op = "reproducibility_pressure"
    /\ DOMAIN request = {"urgency", "scenario_count", "success_rate"}
    /\ request.urgency = 80
    /\ request.scenario_count = 11
    /\ request.success_rate = 49
    /\ ReproducibilityScore = 10

----------------------------------------------------------------------------
(* Properties the code implies without stating them *)

FixedActions == {"proceed", "block"}

\* C22: for every context classified Standard, HighStakes or Ambiguous the
\* defer candidate passes all three filters, options_after_filtering is
\* between 1 and 3, the selection is never None, and no context ends in the
\* no_action sentinel.
C22_DeferAlwaysSurvives ==
    Decided =>
        /\ LastTier \in MidTiers =>
               /\ eap.options[3].id = "defer"
               /\ MeetsConstraints(eap.options[3])
               /\ InSeq(eap.options[3], eap.filtered_options)
               /\ ret.value.recommended_action.options_after_filtering \in 1..3
               /\ SelectedAction # None
               /\ "id" \in DOMAIN SelectedAction
               /\ SelectedAction.id \in {"proceed", "modified_proceed", "defer"}
        /\ LastTier \notin MidTiers =>
               ret.value.recommended_action.action \in FixedActions

C22_Witness ==
    /\ Decided
    /\ LastTier = "TIER_4_AMBIGUOUS"
    /\ LastContext.system_confidence = 30
    /\ LastContext.potential_harm_level = 8
    /\ eap.filtered_options = <<eap.options[3]>>
    /\ ret.value.recommended_action.options_after_filtering = 1
    /\ SelectedAction.id = "defer"

\* C23: for every context within the documented ranges classified Standard,
\* HighStakes or Ambiguous the unmodified proceed candidate is never selected:
\* modified_proceed survives the filters whenever proceed does and scores
\* strictly higher; with harm >= 4 the selected action is always defer.
C23_ProceedNeverSelected ==
    (Decided /\ LastTier \in MidTiers /\ InDocumentedRanges(LastContext)) =>
        /\ SelectedAction.id # "proceed"
        /\ InSeq(eap.options[1], eap.filtered_options) =>
               /\ InSeq(eap.options[2], eap.filtered_options)
               /\ WeightedScore(eap.options[2]) > WeightedScore(eap.options[1])
        /\ LastContext.potential_harm_level >= 4 => SelectedAction.id = "defer"

C23_Witness ==
    /\ Decided
    /\ LastTier = "TIER_2_STANDARD"
    /\ LastContext.potential_harm_level = 5
    /\ LastContext.reversibility_score = 100
    /\ LastContext.system_confidence = 95
    /\ Len(eap.filtered_options) = 3
    /\ SelectedAction.id = "defer"

LastTriggered == LastEntry.evaluation.heuristics_triggered

\* C24: a context is Routine iff harm < 3 and reversibility >= 0.7 and
\* confidence >= 0.4 and stakeholder count <= 3, independently of urgency; any
\* triggered heuristic forces a tier of at least Standard; the proportionality
\* heuristic alone never changes the assigned tier.
C24_RoutineExactly ==
    Decided =>
        LET c == LastContext
        IN  /\ LastTier = "TIER_1_ROUTINE" <=>
                   /\ c.potential_harm_level < 3
                   /\ c.reversibility_score >= 70
                   /\ c.system_confidence >= 40
                   /\ Len(c.stakeholders) <= 3
            /\ InSeq("harm_reduction", LastTriggered) <=> c.potential_harm_level > 3
            /\ InSeq("reversibility_test", LastTriggered) <=> c.reversibility_score < 70
            /\ InSeq("proportionality", LastTriggered)
                   <=> (c.potential_harm_level > 5 /\ c.urgency_level < 3)
            /\ InSeq("consensus_needed", LastTriggered) <=> Len(c.stakeholders) > 3
            /\ Len(LastTriggered) > 0 => LastTier # "TIER_1_ROUTINE"
            /\ \A u \in UrgencyGrid :
                   EvaluateDecision([c EXCEPT !.urgency_level = u]).assigned_tier = LastTier
            /\ AssignTier(c, SelectSeq(LastTriggered, LAMBDA h : h # "proportionality"))
                   = LastTier

C24_Witness ==
    /\ Decided
    /\ LastTier = "TIER_3_HIGH_STAKES"
    /\ LastContext.potential_harm_level = 6
    /\ LastContext.urgency_level = 2
    /\ LastContext.reversibility_score = 70
    /\ LastTriggered = <<"harm_reduction", "proportionality">>

\* C25: for every context and each of the five tiers the action result the
\* facade logs and returns is identical to the result
\* EthicalActionPathway.process_decision returns for the same context and
\* evaluation.
C25_FacadeAgreesWithPathway ==
    Decided =>
        /\ ret.value.recommended_action
               = EapProcessDecision(LastContext, LastEntry.evaluation).result
        /\ LastEntry.action
               = EapProcessDecision(LastContext, LastEntry.evaluation).result

\* the part of C25 that holds: the facade logs what it returns, and for the
\* tiers it delegates it returns the pathway's result unchanged
C25_AgreesOnDelegatedTiers ==
    Decided =>
        /\ LastEntry.action = ret.value.recommended_action
        /\ LastTier \in MidTiers =>
               ret.value.recommended_action
                   = EapProcessDecision(LastContext, LastEntry.evaluation).result

====
